---- MODULE Spec2Model ----
(***************************************************************************)
(* State-machine model of GestorTareas.py: the TaskManager object (heap    *)
(* of pending tasks, set of completed names, reverse dependency index,     *)
(* sequence counter), the JSON snapshot it writes, and what each call      *)
(* reports to its caller.                                                  *)
(***************************************************************************)
EXTENDS Integers, Sequences, FiniteSets, TLC

VARIABLES tasks, completed_tasks, task_dependencies, counter, file, output,
          pendingDepPairs, maxSequence, loads

vars == <<tasks, completed_tasks, task_dependencies, counter, file, output,
          pendingDepPairs, maxSequence, loads>>

(* ---------------- bounds and input alphabets ---------------- *)

\* number of add_task calls that get past validation
MaxCounter == 3
\* number of times the program is started again on the file it left
MaxLoads == 1
Names == {"A", "B"}
\* names the caller may type that are no task name: empty, and a blank
BlankNames == {"", " "}
\* priorities as typed by the caller (main passes the raw input string)
Priorities == {"1", "5"}
BadPriorities == {"x"}
\* deadlines as passed by main, already validated as YYYY-MM-DD
Deadlines == {"2025-01-31"}

\* dependency lists as main builds them from the typed line: none, one name,
\* or two names in either order, the same name twice included
DepLists == {<<>>, <<"A">>, <<"B">>, <<"A", "A">>, <<"A", "B">>,
             <<"B", "A">>, <<"B", "B">>}
\* the dependency lists tried with an ill-formed name or priority
ShortDepLists == {<<>>, <<"B">>}

(* ---------------- pure helpers ---------------- *)

\* str.strip() on the inputs of the model
strip(s) == IF s = " " THEN "" ELSE s

\* int(priority): the strings that parse, and their values
IsIntString(s) == s \in {"1", "3", "5"}
int(s) == CASE s = "1" -> 1 [] s = "3" -> 3 [] s = "5" -> 5 [] OTHER -> 0

Range(s) == {s[i] : i \in 1..Len(s)}

\* heap entries are the tuples (priority, counter, task)
EntryTask(e) == e[3]
PendingNames == {EntryTask(tasks[i]).name : i \in 1..Len(tasks)}

\* tuple comparison (priority, counter, ...) < (priority, counter, ...)
Less(a, b) == a[1] < b[1] \/ (a[1] = b[1] /\ a[2] < b[2])

\* 0-based list access, as in the Python code
At(h, i) == h[i + 1]
SetAt(h, i, x) == [h EXCEPT ![i + 1] = x]

RECURSIVE SiftDownLoop(_, _, _, _)
SiftDownLoop(h, startpos, pos, newitem) ==
    IF pos > startpos
    THEN LET parentpos == (pos - 1) \div 2
         IN  IF Less(newitem, At(h, parentpos))
             THEN SiftDownLoop(SetAt(h, pos, At(h, parentpos)), startpos,
                               parentpos, newitem)
             ELSE SetAt(h, pos, newitem)
    ELSE SetAt(h, pos, newitem)

\* heapq._siftdown(heap, startpos, pos)
siftdown(h, startpos, pos) == SiftDownLoop(h, startpos, pos, At(h, pos))

RECURSIVE SiftUpLoop(_, _, _, _)
SiftUpLoop(h, startpos, pos, newitem) ==
    LET endpos   == Len(h)
        childpos == 2 * pos + 1
        rightpos == childpos + 1
        c == IF rightpos < endpos /\ ~Less(At(h, childpos), At(h, rightpos))
             THEN rightpos ELSE childpos
    IN  IF childpos < endpos
        THEN SiftUpLoop(SetAt(h, pos, At(h, c)), startpos, c, newitem)
        ELSE siftdown(SetAt(h, pos, newitem), startpos, pos)

\* heapq._siftup(heap, pos)
siftup(h, pos) == SiftUpLoop(h, pos, pos, At(h, pos))

\* heapq.heappush(heap, item)
heappush(h, item) == siftdown(Append(h, item), 0, Len(h))

RECURSIVE HeapifyFrom(_, _)
HeapifyFrom(h, i) == IF i < 0 THEN h ELSE HeapifyFrom(siftup(h, i), i - 1)

\* heapq.heapify(x)
heapify(h) == HeapifyFrom(h, (Len(h) \div 2) - 1)

\* a removal that always drops the root of the heap (pop instead of del)
DelAtRoot(h, index) == SubSeq(h, 2, Len(h))

\* del self.tasks[index]   (index 0-based)
DelAt(h, index) == SubSeq(h, 1, index) \o SubSeq(h, index + 2, Len(h))

RECURSIVE Reverse(_)
Reverse(q) == IF q = <<>> THEN <<>> ELSE Append(Reverse(Tail(q)), Head(q))

\* an evaluator that reports the missing dependencies last-first
pending_dependencies_reversed(task, completed) ==
    LET NotDone(dep) == dep \notin completed
    IN  Reverse(SelectSeq(task.dependencies, NotDone))

\* an evaluator that looks at the first dependency only
pending_dependencies_first(task, completed) ==
    IF task.dependencies # <<>> /\ task.dependencies[1] \notin completed
    THEN <<task.dependencies[1]>> ELSE <<>>

\* is_task_executable(task)[1]: the dependencies not yet completed, in order
pending_dependencies(task, completed) ==
    LET NotDone(dep) == dep \notin completed
    IN  SelectSeq(task.dependencies, NotDone)

\* is_task_executable(task)[0]
is_task_executable(task, completed) ==
    IF task.dependencies = <<>> THEN TRUE
    ELSE Len(pending_dependencies(task, completed)) = 0

\* a validation that stops at the first unknown dependency
invalid_dependencies_first(dependencies, heap, completed) ==
    LET names == {EntryTask(heap[i]).name : i \in 1..Len(heap)}
        Unknown(dep) == dep \notin names /\ dep \notin completed
        all == SelectSeq(dependencies, Unknown)
    IN  IF all = <<>> THEN <<>> ELSE <<all[1]>>

\* add_task's validation of the dependency list
invalid_dependencies(dependencies, heap, completed) ==
    LET names == {EntryTask(heap[i]).name : i \in 1..Len(heap)}
        Unknown(dep) == dep \notin names /\ dep \notin completed
    IN  SelectSeq(dependencies, Unknown)

\* an index that keeps only the latest dependent of each name
RECURSIVE RecordEdgesOverwrite(_, _, _)
RecordEdgesOverwrite(index, dependencies, name) ==
    IF dependencies = <<>> THEN index
    ELSE LET dep  == Head(dependencies)
             next == [k \in (DOMAIN index) \cup {dep} |->
                        IF k = dep THEN <<name>> ELSE index[k]]
         IN  RecordEdgesOverwrite(next, Tail(dependencies), name)

\* the loop "for dep in dependencies: ... append(name)"
RECURSIVE RecordEdges(_, _, _)
RecordEdges(index, dependencies, name) ==
    IF dependencies = <<>> THEN index
    ELSE LET dep  == Head(dependencies)
             base == IF dep \in DOMAIN index THEN index[dep] ELSE <<>>
             next == [k \in (DOMAIN index) \cup {dep} |->
                        IF k = dep THEN Append(base, name) ELSE index[k]]
         IN  RecordEdges(next, Tail(dependencies), name)

\* a snapshot that leaves the completed names out
SnapshotNoCompleted(heap, completed, index) ==
    [tasks             |-> [i \in 1..Len(heap) |-> EntryTask(heap[i])],
     completed_tasks   |-> {},
     task_dependencies |-> index]

\* the dict written by save_tasks
Snapshot(heap, completed, index) ==
    [tasks             |-> [i \in 1..Len(heap) |-> EntryTask(heap[i])],
     completed_tasks   |-> completed,
     task_dependencies |-> index]

\* save_tasks(): the write succeeds, or fails and is only reported
save_tasks(ok, heap, completed, index) ==
    IF ok THEN [status |-> "valid", data |-> Snapshot(heap, completed, index)]
    ELSE file

\* index of the first heap entry named task_name, 0 if there is none (1-based)
RECURSIVE FindFrom(_, _, _)
FindFrom(heap, task_name, i) ==
    IF i > Len(heap) THEN 0
    ELSE IF EntryTask(heap[i]).name = task_name THEN i
         ELSE FindFrom(heap, task_name, i + 1)

FindTask(heap, task_name) == FindFrom(heap, task_name, 1)

\* a blocking check that looks the name up among the completed names, so
\* that it never finds a dependent of a pending task
tareas_bloqueadas_none(task_name, index, completed) ==
    LET NotDone(dep) == dep \notin completed
    IN  IF task_name \in completed /\ task_name \in DOMAIN index
        THEN SelectSeq(index[task_name], NotDone)
        ELSE <<>>

\* complete_task's list of dependents that are not completed
tareas_bloqueadas(task_name, index, completed) ==
    LET NotDone(dep) == dep \notin completed
    IN  IF task_name \in DOMAIN index THEN SelectSeq(index[task_name], NotDone)
        ELSE <<>>

\* what a call reports: the exception it raises or the message it prints
Report(op, status, names, saved) ==
    [op |-> op, status |-> status, names |-> names, saved |-> saved]

(* ---------------- the state machine ---------------- *)

EmptyIndex == [k \in {} |-> <<>>]

\* TaskManager() with no tasks.json present: load_tasks writes an empty file
Init ==
    /\ tasks = <<>>
    /\ completed_tasks = {}
    /\ task_dependencies = EmptyIndex
    /\ counter = 0
    /\ file = [status |-> "valid", data |-> Snapshot(<<>>, {}, EmptyIndex)]
    /\ output = Report("init", "ok", <<>>, TRUE)
    /\ pendingDepPairs = {}
    /\ maxSequence = 0
    /\ loads = 0

Unchanged == UNCHANGED <<tasks, completed_tasks, task_dependencies, counter,
                         file, pendingDepPairs, maxSequence, loads>>

\* outcomes of the write in save_tasks that the calls below draw from: the
\* write succeeds
SaveOutcomes == {TRUE}

add_task(name, priority, dependencies, deadline, saveOk) ==
    IF name = "" \/ strip(name) = ""
    THEN /\ output' = Report("add", "InvalidName", <<>>, FALSE)
         /\ Unchanged
    ELSE IF ~IsIntString(priority)
    THEN /\ output' = Report("add", "InvalidPriority", <<>>, FALSE)
         /\ Unchanged
    ELSE LET invalid == invalid_dependencies(dependencies, tasks, completed_tasks)
             task == [name |-> name, priority |-> int(priority),
                      dependencies |-> dependencies, deadline |-> deadline]
             heap == heappush(tasks, <<int(priority), counter + 1, task>>)
             index == RecordEdges(task_dependencies, dependencies, name)
         IN  IF invalid # <<>>
             THEN /\ output' = Report("add",
                                      "UnknownDependency", invalid, FALSE)
                  /\ Unchanged
             ELSE /\ counter < MaxCounter
                  /\ counter' = counter + 1
                  /\ tasks' = heap
                  /\ task_dependencies' = index
                  /\ UNCHANGED completed_tasks
                  /\ file' = save_tasks(saveOk, heap, completed_tasks, index)
                  /\ output' = Report("add", "ok",
                                      pending_dependencies(task, completed_tasks), TRUE)
                  /\ pendingDepPairs' = pendingDepPairs \cup
                        {<<name, d>> : d \in Range(dependencies) \cap PendingNames}
                  /\ maxSequence' = IF counter + 1 > maxSequence
                                    THEN counter + 1 ELSE maxSequence
                  /\ UNCHANGED loads

\* a completion that is undone when the snapshot cannot be written
complete_task_undone(task_name, saveOk) ==
    LET i == FindTask(tasks, task_name)
    IN  IF i = 0
        THEN /\ output' = Report("complete", "NotFound", <<>>, FALSE)
             /\ Unchanged
        ELSE LET task == EntryTask(tasks[i])
                 unmet == pending_dependencies(task, completed_tasks)
                 blocked == tareas_bloqueadas(task_name, task_dependencies,
                                              completed_tasks)
                 heap == heapify(DelAt(tasks, i - 1))
                 done == completed_tasks \cup {task_name}
             IN  IF unmet # <<>>
                 THEN /\ output' = Report("complete",
                                          "UnmetDependencies", unmet, FALSE)
                      /\ Unchanged
                 ELSE IF blocked # <<>>
                 THEN /\ output' = Report("complete",
                                          "BlockedByDependents", blocked, FALSE)
                      /\ Unchanged
                 ELSE IF ~saveOk
                 THEN /\ output' = Report("complete", "IoError", <<>>, TRUE)
                      /\ Unchanged
                 ELSE /\ tasks' = heap
                      /\ completed_tasks' = done
                      /\ UNCHANGED <<task_dependencies, counter, pendingDepPairs,
                                     maxSequence, loads>>
                      /\ file' = save_tasks(saveOk, heap, done, task_dependencies)
                      /\ output' = Report("complete", "ok", <<>>, TRUE)

\* a completion that marks the name completed before the legality checks
complete_task_eager(task_name, saveOk) ==
    LET i == FindTask(tasks, task_name)
    IN  IF i = 0
        THEN /\ output' = Report("complete", "NotFound", <<>>, FALSE)
             /\ Unchanged
        ELSE LET task == EntryTask(tasks[i])
                 done == completed_tasks \cup {task_name}
                 unmet == pending_dependencies(task, completed_tasks)
                 blocked == tareas_bloqueadas(task_name, task_dependencies,
                                              completed_tasks)
                 heap == heapify(DelAt(tasks, i - 1))
             IN  IF unmet # <<>>
                 THEN /\ output' = Report("complete",
                                          "UnmetDependencies", unmet, FALSE)
                      /\ completed_tasks' = done
                      /\ UNCHANGED <<tasks, task_dependencies, counter, file,
                                     pendingDepPairs, maxSequence, loads>>
                 ELSE IF blocked # <<>>
                 THEN /\ output' = Report("complete",
                                          "BlockedByDependents", blocked, FALSE)
                      /\ completed_tasks' = done
                      /\ UNCHANGED <<tasks, task_dependencies, counter, file,
                                     pendingDepPairs, maxSequence, loads>>
                 ELSE /\ tasks' = heap
                      /\ completed_tasks' = done
                      /\ UNCHANGED <<task_dependencies, counter, pendingDepPairs,
                                     maxSequence, loads>>
                      /\ file' = save_tasks(saveOk, heap, done, task_dependencies)
                      /\ output' = Report("complete", "ok", <<>>, TRUE)

complete_task(task_name, saveOk) ==
    LET i == FindTask(tasks, task_name)
    IN  IF i = 0
        THEN /\ output' = Report("complete", "NotFound", <<>>, FALSE)
             /\ Unchanged
        ELSE LET task == EntryTask(tasks[i])
                 unmet == pending_dependencies(task, completed_tasks)
                 blocked == tareas_bloqueadas(task_name, task_dependencies,
                                              completed_tasks)
                 heap == heapify(DelAt(tasks, i - 1))
                 done == completed_tasks \cup {task_name}
             IN  IF unmet # <<>>
                 THEN /\ output' = Report("complete",
                                          "UnmetDependencies", unmet, FALSE)
                      /\ Unchanged
                 ELSE IF blocked # <<>>
                 THEN /\ output' = Report("complete",
                                          "BlockedByDependents", blocked, FALSE)
                      /\ Unchanged
                 ELSE /\ tasks' = heap
                      /\ completed_tasks' = done
                      /\ UNCHANGED <<task_dependencies, counter, pendingDepPairs,
                                     maxSequence, loads>>
                      /\ file' = save_tasks(saveOk, heap, done, task_dependencies)
                      /\ output' = Report("complete", "ok", <<>>, TRUE)

\* main, option 2: sorted(task_manager.tasks, key=lambda x: x[0]), a stable
\* sort of the heap array on the priority alone
RECURSIVE InsertStable(_, _)
InsertStable(sorted, e) ==
    IF sorted = <<>> THEN <<e>>
    ELSE IF e[1] < Head(sorted)[1] THEN <<e>> \o sorted
         ELSE <<Head(sorted)>> \o InsertStable(Tail(sorted), e)

RECURSIVE sorted_by_priority(_)
sorted_by_priority(h) ==
    IF h = <<>> THEN <<>>
    ELSE InsertStable(sorted_by_priority(SubSeq(h, 1, Len(h) - 1)), h[Len(h)])

ListPending == sorted_by_priority(tasks)

\* the calls add_task receives: well-formed ones with every dependency list,
\* and ill-formed ones (blank name, non-integer priority)
AddCalls ==
    [name : Names, priority : Priorities, dependencies : DepLists,
     deadline : Deadlines]
    \cup [name : BlankNames, priority : {"1"},
          dependencies : ShortDepLists, deadline : Deadlines]
    \cup [name : Names, priority : BadPriorities,
          dependencies : ShortDepLists, deadline : Deadlines]

AddTask ==
    \E call \in AddCalls, saveOk \in SaveOutcomes :
        add_task(call.name, call.priority, call.dependencies, call.deadline, saveOk)

CompleteTask ==
    \E task_name \in Names, saveOk \in SaveOutcomes : complete_task(task_name, saveOk)

Next == AddTask \/ CompleteTask

Spec == Init /\ [][Next]_vars

(* ---------------- persistence: failing writes and reloads ---------------- *)

\* load_tasks, file readable: entries numbered by their place in the file
LoadedTasks(data) ==
    [i \in 1..Len(data.tasks) |-> <<data.tasks[i].priority, i - 1, data.tasks[i]>>]

\* a reload that leaves the counter at the value __init__ gave it
LoadedCounterZero(data) == 0

\* load_tasks: self.counter = len(self.tasks)
LoadedCounter(data) == Len(data.tasks)

MaxOf(S, floor) == IF S = {} THEN floor
                   ELSE LET m == CHOOSE x \in S : \A y \in S : y <= x
                        IN  IF m > floor THEN m ELSE floor

\* TaskManager() on the file the previous run left: __init__ and load_tasks
load_tasks(saveOk) ==
    /\ loads < MaxLoads
    /\ loads' = loads + 1
    /\ UNCHANGED pendingDepPairs
    /\ IF file.status = "valid"
       THEN /\ tasks' = LoadedTasks(file.data)
            /\ completed_tasks' = file.data.completed_tasks
            /\ task_dependencies' = file.data.task_dependencies
            /\ counter' = LoadedCounter(file.data)
            /\ UNCHANGED file
            /\ output' = Report("load", "ok", <<>>, FALSE)
            /\ maxSequence' = MaxOf({i - 1 : i \in 1..Len(file.data.tasks)},
                                    maxSequence)
       ELSE /\ tasks' = <<>>
            /\ completed_tasks' = {}
            /\ task_dependencies' = EmptyIndex
            /\ counter' = 0
            /\ file' = save_tasks(saveOk, <<>>, {}, EmptyIndex)
            /\ output' = Report("load", "reset", <<>>, TRUE)
            /\ UNCHANGED maxSequence

\* the write in save_tasks succeeds, or raises and is only reported
IOOutcomes == BOOLEAN

\* the calls add_task receives in the runs with reloads: A with either
\* priority, B with the larger one, alone or depending on A
PersistCalls ==
    [name : {"A"}, priority : Priorities, dependencies : {<<>>},
     deadline : Deadlines]
    \cup [name : {"B"}, priority : {"5"}, dependencies : {<<>>, <<"A">>},
          deadline : Deadlines]

\* in these runs adding stops once some task has held sequence MaxCounter
AddTaskIO ==
    \E call \in PersistCalls, saveOk \in IOOutcomes :
      /\ maxSequence < MaxCounter
      /\ add_task(call.name, call.priority, call.dependencies, call.deadline, saveOk)

CompleteTaskIO ==
    \E task_name \in Names, saveOk \in IOOutcomes : complete_task(task_name, saveOk)

Restart == \E saveOk \in IOOutcomes : load_tasks(saveOk)

NextPersist == AddTaskIO \/ CompleteTaskIO \/ Restart

SpecPersist == Init /\ [][NextPersist]_vars

(* ---------------- reloads with every write succeeding ---------------- *)

\* the names and calls of these runs: two tasks of the larger priority and a
\* third of the smaller one, none with dependencies
ReloadNames == {"A", "B", "C"}

ReloadCalls ==
    [name : {"A", "B"}, priority : {"5"}, dependencies : {<<>>},
     deadline : Deadlines]
    \cup [name : {"C"}, priority : {"1"}, dependencies : {<<>>},
          deadline : Deadlines]

AddTaskSaved ==
    \E call \in ReloadCalls :
      /\ maxSequence < MaxCounter
      /\ add_task(call.name, call.priority, call.dependencies, call.deadline, TRUE)

CompleteTaskSaved == \E task_name \in ReloadNames : complete_task(task_name, TRUE)

Reload == load_tasks(TRUE)

NextReload == AddTaskSaved \/ CompleteTaskSaved \/ Reload

SpecReload == Init /\ [][NextReload]_vars

(* ---------------- properties ---------------- *)

Known == PendingNames \cup completed_tasks

\* the dependencies of a call or task that are not in a set of names, in order
NotIn(deps, S) == LET Missing(d) == d \notin S IN SelectSeq(deps, Missing)

\* the dependents recorded for a name (empty when it has no key)
Dependents(n) ==
    IF n \in DOMAIN task_dependencies THEN task_dependencies[n] ELSE <<>>

Rejected(status) == status \in {"InvalidName", "InvalidPriority",
                                "UnknownDependency"}

\* C1: a task name is never reused: add_task with the name of a pending task
\* or of a completed one is rejected and leaves pending, completed, the
\* dependency index and the sequence counter unchanged.
C1_NameNeverReused ==
    [][\A call \in AddCalls, saveOk \in SaveOutcomes :
          (/\ call.name \in Known
           /\ add_task(call.name, call.priority, call.dependencies,
                       call.deadline, saveOk))
          => /\ output'.status # "ok"
             /\ UNCHANGED <<tasks, completed_tasks, task_dependencies, counter>>
      ]_vars

\* C2: in every reachable state no name is both the name of a pending task
\* and a member of the completed set.
C2_PendingNotCompleted == PendingNames \cap completed_tasks = {}

\* C3: the ordered listing of the pending tasks is ascending by
\* (priority, sequence): lower priority first, and among equal priorities the
\* task added earlier first.
C3_ListingByPrioritySequence ==
    \A i, j \in 1..Len(ListPending) :
        i < j => Less(ListPending[i], ListPending[j])

\* C4: add_task is all-or-nothing on validation failure: with a blank name or
\* a dependency that is neither pending nor completed the call fails, nothing
\* is recorded (no task, no edge, no sequence increment, no snapshot), and the
\* unknown-dependency error names every offending dependency, in order.
C4_AddAllOrNothing ==
    [][LET unknown == Names \ Known
           Refused == /\ Rejected(output'.status)
                      /\ ~output'.saved
                      /\ UNCHANGED <<tasks, completed_tasks, task_dependencies,
                                     counter, file>>
       IN  output'.op = "add"
           => \A call \in AddCalls, saveOk \in SaveOutcomes :
                 /\ (/\ call.name \in BlankNames
                     /\ add_task(call.name, call.priority, call.dependencies,
                                 call.deadline, saveOk))
                    => Refused
                 /\ (/\ Range(call.dependencies) \cap unknown # {}
                     /\ add_task(call.name, call.priority, call.dependencies,
                                 call.deadline, saveOk))
                    => /\ Refused
                       /\ (/\ call.name \notin BlankNames
                           /\ call.priority \in Priorities)
                          => /\ output'.status = "UnknownDependency"
                             /\ output'.names = NotIn(call.dependencies, Known)
      ]_vars

\* C4 witness: an add was refused over two unknown dependencies while the
\* registry already held a task.
C4_Witness ==
    /\ output.op = "add"
    /\ output.status = "UnknownDependency"
    /\ Len(output.names) >= 2
    /\ tasks # <<>>

\* C5: complete_task never completes a task with a declared dependency that
\* is not completed: it reports UnmetDependencies with exactly those
\* dependencies, in order, whether or not the task also has pending
\* dependents, and changes nothing.
C5_UnmetDependenciesGate ==
    [][\A n \in Names, saveOk \in SaveOutcomes :
          (complete_task(n, saveOk) /\ FindTask(tasks, n) # 0)
          => LET task  == EntryTask(tasks[FindTask(tasks, n)])
                 unmet == NotIn(task.dependencies, completed_tasks)
             IN  /\ unmet # <<>>
                    => /\ output'.status = "UnmetDependencies"
                       /\ output'.names = unmet
                       /\ UNCHANGED <<tasks, completed_tasks>>
                 /\ \A e \in Range(tasks) \ Range(tasks') :
                        Range(EntryTask(e).dependencies) \subseteq completed_tasks
      ]_vars

\* C5 witness: a completion was refused for unmet dependencies on a task that
\* also has dependents that are not completed.
C5_Witness ==
    /\ output.op = "complete"
    /\ output.status = "UnmetDependencies"
    /\ \E n \in Names :
          /\ FindTask(tasks, n) # 0
          /\ NotIn(EntryTask(tasks[FindTask(tasks, n)]).dependencies,
                   completed_tasks) = output.names
          /\ NotIn(Dependents(n), completed_tasks) # <<>>

\* C6: for a pending task whose own dependencies are all completed,
\* complete_task fails with BlockedByDependents, naming the blockers, exactly
\* when some recorded dependent of it is not completed, and succeeds
\* otherwise.
C6_BlockedByDependents ==
    [][\A n \in Names, saveOk \in SaveOutcomes :
          (complete_task(n, saveOk) /\ FindTask(tasks, n) # 0)
          => LET task     == EntryTask(tasks[FindTask(tasks, n)])
                 unmet    == NotIn(task.dependencies, completed_tasks)
                 blockers == NotIn(Dependents(n), completed_tasks)
             IN  unmet = <<>>
                 => IF blockers # <<>>
                    THEN /\ output'.status = "BlockedByDependents"
                         /\ output'.names = blockers
                         /\ UNCHANGED <<tasks, completed_tasks>>
                    ELSE /\ output'.status = "ok"
                         /\ n \in completed_tasks'
      ]_vars

\* C6 witness: a completion was refused because a dependent is still pending.
C6_Witness ==
    /\ output.op = "complete"
    /\ output.status = "BlockedByDependents"
    /\ \E n \in PendingNames :
          /\ NotIn(Dependents(n), completed_tasks) = output.names
          /\ Range(output.names) \cap PendingNames # {}

\* C7: once a task T was added with a dependency D that was pending at that
\* moment, neither T nor D is ever in the completed set.
C7_PendingDependencyDeadlock ==
    \A pair \in pendingDepPairs :
        pair[1] \notin completed_tasks /\ pair[2] \notin completed_tasks

\* C8: a successful complete_task(name) removes exactly one pending entry,
\* whose name is name, and adds name to completed; every other entry (with
\* its priority, sequence and task record), the rest of completed, the
\* dependency index and the counter are unchanged.
C8_CompleteFrame ==
    [][\A n \in Names, saveOk \in SaveOutcomes :
          (complete_task(n, saveOk) /\ output'.status = "ok")
          => /\ \E e \in Range(tasks) :
                   /\ EntryTask(e).name = n
                   /\ Range(tasks') = Range(tasks) \ {e}
             /\ Len(tasks') = Len(tasks) - 1
             /\ completed_tasks' = completed_tasks \cup {n}
             /\ task_dependencies' = task_dependencies
             /\ counter' = counter
      ]_vars

\* C8 witness: a completion succeeded and left other tasks pending.
C8_Witness ==
    /\ output.op = "complete"
    /\ output.status = "ok"
    /\ Len(tasks) >= 2
    /\ completed_tasks # {}

\* C9: a rejected complete_task changes nothing: on NotFound (the name is not
\* pending, also when it is completed), UnmetDependencies or
\* BlockedByDependents, pending, completed, the dependency index, the counter
\* and the snapshot file are unchanged and no snapshot is requested.
C9_RejectedCompleteNoChange ==
    [][\A n \in Names, saveOk \in SaveOutcomes :
          complete_task(n, saveOk)
          => /\ (n \notin PendingNames) => output'.status = "NotFound"
             /\ output'.status \in {"NotFound", "UnmetDependencies",
                                    "BlockedByDependents"}
                => /\ UNCHANGED <<tasks, completed_tasks, task_dependencies,
                                  counter, file>>
                   /\ ~output'.saved
      ]_vars

\* C9 witness: a completion was refused as NotFound for a name that is
\* completed and no longer pending, with another task still pending.
C9_Witness ==
    /\ output.op = "complete"
    /\ output.status = "NotFound"
    /\ tasks # <<>>
    /\ (Names \ PendingNames) \subseteq completed_tasks

\* C10: completed is terminal: a completed name stays completed, and a name
\* that left pending by completion never becomes pending again.
C10_CompletedTerminal ==
    [][\A n \in completed_tasks :
          /\ n \in completed_tasks'
          /\ (n \notin PendingNames) => (n \notin PendingNames')
      ]_vars

\* the entry an accepted add_task has just pushed
NewEntry == CHOOSE e \in Range(tasks') : e[2] = counter'

AddAccepted == output'.op = "add" /\ output'.status = "ok" /\ counter' = counter + 1

\* C11: is_task_executable is true exactly when every declared dependency is
\* completed (so always for an empty list, also right after add), its second
\* result is the dependencies that are not completed, in the declared order,
\* and evaluating it changes nothing.
C11_ExecutabilityEvaluator ==
    [][/\ \A e \in Range(tasks) :
            LET task == EntryTask(e)
            IN  /\ is_task_executable(task, completed_tasks)
                   <=> (\A i \in 1..Len(task.dependencies) :
                           task.dependencies[i] \in completed_tasks)
                /\ pending_dependencies(task, completed_tasks)
                   = NotIn(task.dependencies, completed_tasks)
       /\ AddAccepted
          => LET task == EntryTask(NewEntry)
             IN  /\ output'.names = NotIn(task.dependencies, completed_tasks')
                 /\ task.dependencies = <<>>
                    => /\ output'.names = <<>>
                       /\ is_task_executable(task, completed_tasks')
       /\ output'.status = "UnmetDependencies"
          => UNCHANGED <<tasks, completed_tasks, task_dependencies, counter>>
      ]_vars

\* C11 witness: a task was added whose two different dependencies are both
\* not completed, and the report lists them in the declared order.
C11_Witness ==
    /\ output.op = "add"
    /\ output.status = "ok"
    /\ Len(output.names) = 2
    /\ output.names[1] # output.names[2]
    /\ \E e \in Range(tasks) :
          e[2] = counter /\ EntryTask(e).dependencies = output.names

\* C12: the dependency index only grows: an accepted add of T with dependency
\* D puts T among the dependents of D, and no later add or complete removes a
\* recorded dependent, so two tasks added on the same D are both kept.
C12_IndexOnlyGrows ==
    [][/\ \A d \in DOMAIN task_dependencies :
            /\ d \in DOMAIN task_dependencies'
            /\ Len(task_dependencies'[d]) >= Len(task_dependencies[d])
            /\ SubSeq(task_dependencies'[d], 1, Len(task_dependencies[d]))
               = task_dependencies[d]
       /\ AddAccepted
          => \A d \in Range(EntryTask(NewEntry).dependencies) :
                /\ d \in DOMAIN task_dependencies'
                /\ EntryTask(NewEntry).name \in Range(task_dependencies'[d])
      ]_vars

\* C12 witness: two different tasks are recorded as dependents of one name,
\* one of them already completed.
C12_Witness ==
    \E d \in DOMAIN task_dependencies :
        /\ Cardinality(Range(task_dependencies[d])) >= 2
        /\ Range(task_dependencies[d]) \cap completed_tasks # {}

\* C13: no dependents collection of the index holds the same task name more
\* than once.
C13_NoDuplicateDependents ==
    \A d \in DOMAIN task_dependencies :
        \A i, j \in 1..Len(task_dependencies[d]) :
            i # j => task_dependencies[d][i] # task_dependencies[d][j]

\* a reload of a file that holds the snapshot of the current state
ReloadOfSavedState ==
    /\ output'.op = "load"
    /\ loads' = loads + 1
    /\ file.status = "valid"
    /\ file.data = Snapshot(tasks, completed_tasks, task_dependencies)

\* C14: sequence values are never reused: the sequence given to a newly added
\* task is greater than every sequence value any task held before, also
\* before a reload.
C14_SequenceNeverReused ==
    [][AddAccepted => counter' > maxSequence]_vars

\* C15: round trip: loading the snapshot of the current state gives the same
\* pending task records (name, priority, dependencies, deadline), the same
\* completed set and the same dependency index.
C15_RoundTrip ==
    [][ReloadOfSavedState
       => /\ Len(tasks') = Len(tasks)
          /\ \A i \in 1..Len(tasks) : EntryTask(tasks'[i]) = EntryTask(tasks[i])
          /\ completed_tasks' = completed_tasks
          /\ task_dependencies' = task_dependencies
      ]_vars

\* C15 witness: the program was reloaded from an up-to-date file into a state
\* with pending tasks, completed names and recorded edges.
C15_Witness ==
    /\ output.op = "load"
    /\ tasks # <<>>
    /\ completed_tasks # {}
    /\ DOMAIN task_dependencies # {}
    /\ file.data = Snapshot(tasks, completed_tasks, task_dependencies)

\* the snapshot requested by the step was not written
SaveFailed ==
    /\ output'.saved
    /\ output'.op \in {"add", "complete"}
    /\ file' # [status |-> "valid",
                data |-> Snapshot(tasks', completed_tasks', task_dependencies')]

\* C16: a failing save neither rolls back nor blocks: the add or complete
\* whose snapshot could not be written still returns normally with the task
\* added / completed in memory, exactly as with a successful write.
C16_FailedSaveKeepsState ==
    [][/\ SaveFailed => output'.status = "ok"
       /\ \A call \in PersistCalls :
             (/\ NotIn(call.dependencies, Known) = <<>>
              /\ add_task(call.name, call.priority, call.dependencies,
                          call.deadline, FALSE))
             => /\ output'.status = "ok"
                /\ counter' = counter + 1
                /\ tasks' = heappush(tasks,
                      <<int(call.priority), counter + 1,
                        [name |-> call.name, priority |-> int(call.priority),
                         dependencies |-> call.dependencies,
                         deadline |-> call.deadline]>>)
                /\ completed_tasks' = completed_tasks
       /\ \A n \in Names :
             (/\ complete_task(n, TRUE) \/ complete_task(n, FALSE)
              /\ FindTask(tasks, n) # 0
              /\ NotIn(EntryTask(tasks[FindTask(tasks, n)]).dependencies,
                       completed_tasks) = <<>>
              /\ NotIn(Dependents(n), completed_tasks) = <<>>)
             => /\ output'.status = "ok"
                /\ n \in completed_tasks'
                /\ Len(tasks') = Len(tasks) - 1
      ]_vars

\* C16 witness: a completion whose snapshot was not written left the name
\* completed while the file still shows an older state.
C16_Witness ==
    /\ output.op = "complete"
    /\ output.status = "ok"
    /\ output.saved
    /\ file.data.completed_tasks # completed_tasks

\* the task record occurs once among the pending entries
OnceIn(h, record) == Cardinality({i \in 1..Len(h) : EntryTask(h[i]) = record}) = 1

\* every pending name is pending once and is not completed
NamesWellFormed ==
    /\ \A i, j \in 1..Len(tasks) :
          i # j => EntryTask(tasks[i]).name # EntryTask(tasks[j]).name
    /\ PendingNames \cap completed_tasks = {}

\* C17: first-added-first-served survives a reload: of two pending tasks of
\* equal priority the one added earlier still has the smaller sequence after
\* the state is saved and loaded again.
C17_FifoSurvivesReload ==
    [][(ReloadOfSavedState /\ NamesWellFormed)
       => \A i, j \in 1..Len(tasks), k, l \in 1..Len(tasks') :
             (/\ tasks[i][1] = tasks[j][1]
              /\ tasks[i][2] < tasks[j][2]
              /\ OnceIn(tasks, EntryTask(tasks[i]))
              /\ OnceIn(tasks, EntryTask(tasks[j]))
              /\ EntryTask(tasks'[k]) = EntryTask(tasks[i])
              /\ EntryTask(tasks'[l]) = EntryTask(tasks[j]))
             => tasks'[k][2] < tasks'[l][2]
      ]_vars

\* the array is a binary min-heap on (priority, sequence)
IsMinHeap(h) == \A i \in 2..Len(h) : ~Less(h[i], h[i \div 2])

DistinctSequences(h) == \A i, j \in 1..Len(h) : i # j => h[i][2] # h[j][2]

\* C18: after any add and complete calls the pending array is a min-heap on
\* (priority, sequence), its first element is a minimum, and it holds exactly
\* the tasks added and not yet completed, each once.
C18_QueueConsistent ==
    [][/\ IsMinHeap(tasks')
       /\ DistinctSequences(tasks')
       /\ \A e \in Range(tasks') : ~Less(e, tasks'[1])
       /\ NamesWellFormed'
       /\ IF AddAccepted
          THEN /\ NewEntry \notin Range(tasks)
               /\ Range(tasks') = Range(tasks) \cup {NewEntry}
               /\ Len(tasks') = Len(tasks) + 1
          ELSE IF output'.op = "complete" /\ output'.status = "ok"
          THEN /\ \E e \in Range(tasks) : Range(tasks') = Range(tasks) \ {e}
               /\ Len(tasks') = Len(tasks) - 1
          ELSE tasks' = tasks
      ]_vars

\* C19: no two pending entries share the same (priority, sequence) pair, also
\* after a reload followed by further adds and completes.
C19_UniquePrioritySequence ==
    \A i, j \in 1..Len(tasks) :
        i # j => <<tasks[i][1], tasks[i][2]>> # <<tasks[j][1], tasks[j][2]>>

\* C19 witness: after a reload a task was added next to a reloaded one of the
\* same priority.
C19_Witness ==
    /\ loads >= 1
    /\ output.op = "add"
    /\ output.status = "ok"
    /\ \E i, j \in 1..Len(tasks) :
          /\ tasks[i][2] = counter
          /\ tasks[j][2] < Len(tasks) - 1
          /\ tasks[i][1] = tasks[j][1]

\* the declared relation: t depends on d when t is recorded as a dependent of d
DependsOn == {<<t, d>> \in Names \X Names :
                 d \in DOMAIN task_dependencies /\ t \in Range(task_dependencies[d])}

RECURSIVE Reaches(_, _, _)
Reaches(from, to, steps) ==
    \/ <<from, to>> \in DependsOn
    \/ /\ steps > 0
       /\ \E mid \in Names :
             <<from, mid>> \in DependsOn /\ Reaches(mid, to, steps - 1)

\* C20: the declared dependency relation is acyclic, and no task lists its
\* own name as a dependency.
C20_DependenciesAcyclic ==
    /\ \A e \in Range(tasks) : EntryTask(e).name \notin Range(EntryTask(e).dependencies)
    /\ \A n \in Names : ~Reaches(n, n, Cardinality(Names))

====
